---- MODULE Spec2Model ----
(***************************************************************************)
(* scripts/check_imported.py: audit of DICOM datasets imported from DaRIS  *)
(* into XNAT.                                                              *)
(*                                                                         *)
(*   compare_dicoms      recursive comparison of two DICOM records         *)
(*   compare_all_dicoms  pairing of the files of two directories           *)
(*   run_check           walk over the datasets of one project             *)
(*                                                                         *)
(* Three specifications share the variables:                               *)
(*   SpecCmp    applies compare_dicoms to a bounded set of record pairs,   *)
(*   SpecMatch  applies compare_all_dicoms to bounded directory listings,  *)
(*   Spec       runs run_check over a bounded catalog.                     *)
(***************************************************************************)
EXTENDS Integers, Sequences, FiniteSets, TLC

VARIABLES
    pc,             \* position of the running function; at its end "done"
                    \* or the exception that left it
    project,        \* args.project
    tmp_dir,        \* "none" | "exists" | "removed": the directory of mkdtemp
    mkdtemp_calls,  \* number of calls of tempfile.mkdtemp
    datasets,       \* the CIDs returned by daris.query
    cids,           \* the sorted list run_check iterates
    pos,            \* index in cids of the next CID
    visited,        \* the CIDs whose audit was started, in order
    error_log,      \* the lines given to logger.error, in order
    info_log,       \* the lines given to logger.info, in order
    unzips,         \* the CIDs the unzip subprocess was run for
    compares,       \* the calls of compare_all_dicoms: << CID, outcome >>
    xnat_paths,     \* the CIDs whose xnat_path exists
    unzip_paths,    \* the directories tmp_dir/<cid> that exist
    xnat_files,     \* listing of xnat_path (SpecMatch)
    daris_files,    \* listing of daris_path (SpecMatch)
    match_result,   \* outcome of compare_all_dicoms (SpecMatch)
    xnat_elem,      \* left record (SpecCmp)
    daris_elem,     \* right record (SpecCmp)
    cmp_result,     \* outcome of compare_dicoms (SpecCmp)
    name_attr       \* whether the dicom library gives a Dataset an
                    \* attribute "name" (read at line 126)

vars == << pc, project, tmp_dir, mkdtemp_calls, datasets, cids, pos, visited,
           error_log, info_log, unzips, compares, xnat_paths, unzip_paths,
           xnat_files, daris_files,
           match_result, xnat_elem, daris_elem, cmp_result, name_attr >>

(***************************************************************************)
(* DICOM records.  A Dataset maps every tag of Tags to an element; an      *)
(* element is absent, a scalar value or a sequence of Datasets.  Iterating *)
(* a Dataset yields its elements in ascending tag order.                   *)
(***************************************************************************)
\* the echo time tag ('0018', '0081')
EchoTime_tag == "0018,0081"
\* a scalar tag sorting before the echo time
Modality_tag == "0008,0060"
\* a sequence tag sorting after the echo time
Sequence_tag == "0040,0275"
\* the tags in the order iteration over a Dataset yields them
TagOrder == << Modality_tag, EchoTime_tag, Sequence_tag >>
Tags == { TagOrder[i] : i \in 1..Len(TagOrder) }
\* scalar values are numbers (len() of them raises TypeError)
Values == {0, 1}
\* longest sequence value of the records compared
MaxSeqLen == 2

Absent == [kind |-> "none", value |-> 0, items |-> << >>]
Val(v) == [kind |-> "val", value |-> v, items |-> << >>]
SeqElem(s) == [kind |-> "seq", value |-> 0, items |-> s]
\* the local variable x of compare_dicoms before its first assignment
Unbound == [kind |-> "unbound", value |-> 0, items |-> << >>]

Has(ds, t) == ds[t].kind # "none"

\* what python raises apart from returning
Exceptions == {"WrongEchoTimeException", "UnboundLocalError", "TypeError",
               "AttributeError"}

Outcome(r, l) == [ret |-> r, log |-> l]
Bool(b) == IF b THEN "true" ELSE "false"

\* xnat_elem.value != daris_elem.value
ValueDiffers(x, d) ==
    \/ x.kind # d.kind
    \/ x.kind = "val" /\ x.value # d.value
    \/ x.kind = "seq" /\ x.items # d.items

\* lines 112-120 served by a comparator that also raises the echo-time
\* exception when xnat_elem has no echo time
EchoCheckRaisingOnAbsent(x, d) ==
    IF ~Has(d, EchoTime_tag) THEN "ok"
    ELSE IF ~Has(x, EchoTime_tag) THEN "raise"
    ELSE IF ValueDiffers(x[EchoTime_tag], d[EchoTime_tag]) THEN "raise"
    ELSE "ok"

\* lines 112-120: "ok" | "raise" (WrongEchoTimeException) | "keyerror"
EchoCheck(x, d) ==
    IF ~Has(d, EchoTime_tag) THEN "ok"
    ELSE IF ~Has(x, EchoTime_tag) THEN "keyerror"
    ELSE IF ValueDiffers(x[EchoTime_tag], d[EchoTime_tag]) THEN "raise"
    ELSE "ok"

RECURSIVE compare_dataset(_, _, _)
RECURSIVE compare_fields(_, _, _, _, _, _)
RECURSIVE compare_sequence(_, _, _, _, _)

\* lines 130-155: daris_elem is a data element; x is bound
compare_element(x, d, log) ==
    IF d.kind = "seq"
    THEN IF x.kind # "seq"
         THEN Outcome("TypeError", log)     \* len(xnat_elem.value)
         ELSE LET log1 == IF Len(x.items) # Len(d.items)
                          THEN Append(log, "mismatching length")
                          ELSE log
              IN  compare_sequence(x.items, d.items, 1, TRUE, log1)
    ELSE IF ValueDiffers(x, d)
         THEN Outcome("false", Append(log, "mismatching value"))
         ELSE Outcome("true", log)

\* lines 136-138: for x, d in zip(xnat_elem.value, daris_elem.value)
compare_sequence(xs, ds, i, match, log) ==
    IF i > Len(xs) \/ i > Len(ds)
    THEN Outcome(Bool(match), log)
    ELSE LET r == compare_dataset(xs[i], ds[i], log)
         IN  IF r.ret \in Exceptions THEN r
             ELSE compare_sequence(xs, ds, i + 1, match /\ r.ret = "true", r.log)

\* lines 121-129: for d in daris_elem; xcur is the local x, which keeps the
\* element of the previous iteration when xnat_elem[d.tag] raises KeyError.
\* The KeyError handler formats daris_elem.name, the attribute "name" of a
\* Dataset, before it logs.
compare_fields(x, d, n, xcur, match, log) ==
    IF n > Len(TagOrder)
    THEN Outcome(Bool(match), log)
    ELSE IF ~Has(d, TagOrder[n])
    THEN compare_fields(x, d, n + 1, xcur, match, log)
    ELSE LET t     == TagOrder[n]
             found == Has(x, t)
             x1    == IF found THEN x[t] ELSE xcur
             log1  == IF found THEN log ELSE Append(log, "missing")
         IN  IF ~found /\ ~name_attr
             THEN Outcome("AttributeError", log)
             ELSE IF x1.kind = "unbound"
             THEN Outcome("UnboundLocalError", log1)
             ELSE LET r == compare_element(x1, d[t], log1)
                  IN  IF r.ret \in Exceptions THEN r
                      ELSE compare_fields(x, d, n + 1, x1,
                                          match /\ found /\ r.ret = "true", r.log)

\* lines 110-129: daris_elem is a Dataset
compare_dataset(x, d, log) ==
    LET e == EchoCheck(x, d)
    IN  IF e = "raise" THEN Outcome("WrongEchoTimeException", log)
        ELSE IF e = "keyerror"
        THEN compare_fields(x, d, 1, Unbound, FALSE,
                            Append(log, "xnat scan does not have echo time"))
        ELSE compare_fields(x, d, 1, Unbound, TRUE, log)

\* compare_dicoms(xnat_elem, daris_elem, prefix) on two Datasets
compare_dicoms(x, d) == compare_dataset(x, d, << >>)

(***************************************************************************)
(* compare_all_dicoms.  A directory maps file names to DICOM records.  An  *)
(* XNAT file name a-<slot>-<echo>.dcm is the tuple of its dash-delimited   *)
(* tokens, a DaRIS file name <index>.dcm the tuple of its dot-delimited    *)
(* tokens.  os.listdir is taken in ascending name order, and a dict of     *)
(* slot numbers is iterated in ascending order.                            *)
(***************************************************************************)
\* int(fname.split('-')[-2])
XnatSlot(fname) == fname[Len(fname) - 1]
\* int(fname.split('.')[0])
DarisIndex(fname) == fname[1]

MaxOf(S) == CHOOSE m \in S : \A n \in S : n <= m
MinOf(S) == CHOOSE m \in S : \A n \in S : m <= n

XnatBefore(f, g) == f[2] < g[2] \/ (f[2] = g[2] /\ f[3] < g[3])
DarisBefore(f, g) == f[1] < g[1]

RECURSIVE ListXnat(_)
\* lines 161-162: the .dcm files of xnat_path
ListXnat(names) ==
    IF names = {} THEN << >>
    ELSE LET f == CHOOSE f \in names : \A g \in names \ {f} : XnatBefore(f, g)
         IN  << f >> \o ListXnat(names \ {f})

RECURSIVE ListDaris(_)
\* lines 159-160: the .dcm files of daris_path
ListDaris(names) ==
    IF names = {} THEN << >>
    ELSE LET f == CHOOSE f \in names : \A g \in names \ {f} : DarisBefore(f, g)
         IN  << f >> \o ListDaris(names \ {f})

\* lines 169-172: xnat_fname_map, slot number -> list of file names
XnatFnameMap(files) ==
    LET keys == { XnatSlot(files[i]) : i \in 1..Len(files) }
    IN  [k \in keys |-> SelectSeq(files, LAMBDA f : XnatSlot(f) = k)]

\* line 173: max(len(v) for v in xnat_fname_map.itervalues())
MaxMult(fname_map) == MaxOf({ Len(fname_map[k]) : k \in DOMAIN fname_map })

\* line 174: max(len(v) for v in xnat_fname_map.itervalues())
MinMult(fname_map) == MaxOf({ Len(fname_map[k]) : k \in DOMAIN fname_map })

\* line 181: (int(fname.split('.')[0]) + 1) // max_mult
DarisSlot(fname, max_mult) == (DarisIndex(fname) + 1) \div max_mult

\* lines 179-182: daris_fname_map
DarisFnameMap(files, max_mult) ==
    LET keys == { DarisSlot(files[i], max_mult) : i \in 1..Len(files) }
    IN  [k \in keys |->
           SelectSeq(files, LAMBDA f : DarisSlot(f, max_mult) = k)]

RECURSIVE SortedSlots(_)
SortedSlots(keys) ==
    IF keys = {} THEN << >>
    ELSE << MinOf(keys) >> \o SortedSlots(keys \ {MinOf(keys)})

MatchOutcome(r, l, n) == [ret |-> r, log |-> l, compared |-> n]

RECURSIVE ComparePairs(_, _, _, _, _, _, _, _)
\* lines 191-212: itertools.product(range(num_echoes), range(num_echoes));
\* i indexes the DaRIS files of the slot, j the XNAT files.  Returns the
\* outcome that ends compare_all_dicoms, or ret "next" to go on to the next
\* slot.
ComparePairs(xnat_dir, daris_dir, xs, ds, i, j, log, n) ==
    IF i > Len(ds) THEN MatchOutcome("next", log, n)
    ELSE IF j > Len(ds) THEN ComparePairs(xnat_dir, daris_dir, xs, ds,
                                          i + 1, 1, log, n)
    ELSE LET r == compare_dicoms(xnat_dir[xs[j]], daris_dir[ds[i]])
         IN  IF r.ret = "WrongEchoTimeException"
             THEN ComparePairs(xnat_dir, daris_dir, xs, ds, i, j + 1,
                               log \o r.log, n + 1)
             ELSE IF r.ret = "true"
             THEN ComparePairs(xnat_dir, daris_dir, xs, ds, i, j + 1,
                               log \o r.log, n + 1)
             ELSE MatchOutcome(r.ret, log \o r.log, n + 1)

RECURSIVE CompareSlots(_, _, _, _, _, _, _, _)
\* lines 187-213: for dcm_num in daris_fname_map
CompareSlots(xnat_dir, daris_dir, xmap, dmap, slots, k, log, n) ==
    IF k > Len(slots) THEN MatchOutcome("true", log, n)
    ELSE LET dcm_num == slots[k]
             num_echoes == Len(dmap[dcm_num])
         IN  IF Len(xmap[dcm_num]) # num_echoes
             THEN MatchOutcome("AssertionError", log, n)
             ELSE LET r == ComparePairs(xnat_dir, daris_dir, xmap[dcm_num],
                                        dmap[dcm_num], 1, 1, log, n)
                  IN  IF r.ret # "next" THEN r
                      ELSE CompareSlots(xnat_dir, daris_dir, xmap, dmap,
                                        slots, k + 1, r.log, r.compared)

\* lines 158-213
compare_all_dicoms(xnat_dir, daris_dir) ==
    LET d_files == ListDaris(DOMAIN daris_dir)
        x_files == ListXnat(DOMAIN xnat_dir)
        xmap    == XnatFnameMap(x_files)
    IN  IF Len(d_files) # Len(x_files)
        THEN MatchOutcome("false", << "mismatching number of dicoms" >>, 0)
        ELSE IF x_files = << >>
        THEN MatchOutcome("ValueError", << >>, 0)    \* max() of no values
        ELSE IF MaxMult(xmap) # MinMult(xmap)
        THEN MatchOutcome("false", << "Inconsistent numbers of echos" >>, 0)
        ELSE LET dmap == DarisFnameMap(d_files, MaxMult(xmap))
             IN  IF DOMAIN xmap # DOMAIN dmap
                 THEN MatchOutcome("false",
                        << "Something strange with numbers of echos" >>, 0)
                 ELSE CompareSlots(xnat_dir, daris_dir, xmap, dmap,
                                   SortedSlots(DOMAIN dmap), 1, << >>, 0)

(***************************************************************************)
(* The records SpecCmp compares.                                           *)
(***************************************************************************)
NoFields == [t \in Tags |-> Absent]
\* the Datasets inside a sequence: one scalar field each
Items == { [NoFields EXCEPT ![t] = Val(v)] :
              t \in {Modality_tag, EchoTime_tag}, v \in Values }
SeqsUpTo(n) == UNION { [1..k -> Items] : k \in 0..n }
Scalars == {Absent} \cup { Val(v) : v \in Values }
Records ==
    { [t \in Tags |-> IF t = Modality_tag THEN m
                      ELSE IF t = EchoTime_tag THEN e ELSE s] :
        m \in Scalars, e \in Scalars,
        s \in {Absent} \cup { SeqElem(q) : q \in SeqsUpTo(MaxSeqLen) } }

NoResult == Outcome("none", << >>)

InitCmp ==
    /\ pc = "cmp_ready"
    /\ xnat_elem \in Records
    /\ daris_elem \in Records
    /\ cmp_result = NoResult
    /\ name_attr \in BOOLEAN
    /\ project = "" /\ tmp_dir = "none" /\ mkdtemp_calls = 0
    /\ datasets = {} /\ cids = << >> /\ pos = 1 /\ visited = << >>
    /\ error_log = << >> /\ info_log = << >> /\ unzips = << >>
    /\ compares = << >> /\ xnat_paths = {} /\ unzip_paths = {}
    /\ xnat_files = << >> /\ daris_files = << >>
    /\ match_result = [ret |-> "none", log |-> << >>, compared |-> 0]

CompareDicoms ==
    /\ pc = "cmp_ready"
    /\ cmp_result' = compare_dicoms(xnat_elem, daris_elem)
    /\ pc' = "cmp_done"
    /\ UNCHANGED << project, tmp_dir, mkdtemp_calls, datasets, cids, pos,
                    visited, error_log, info_log, unzips, compares, xnat_paths,
                    unzip_paths, xnat_files,
                    daris_files, match_result, xnat_elem, daris_elem,
                    name_attr >>

NextCmp == CompareDicoms

SpecCmp == InitCmp /\ [][NextCmp]_vars

(***************************************************************************)
(* The directories SpecMatch compares: XNAT names a-<slot>-<echo>.dcm,     *)
(* DaRIS names 0.dcm .. <n-1>.dcm, every file a record with a modality and *)
(* an echo time.                                                           *)
(***************************************************************************)
\* largest slot number of an XNAT file name
MaxSlot == 2
\* largest echo number of an XNAT file name
MaxEcho == 2
\* most files of one directory
MaxFiles == 4

FlatRecord(m, e) ==
    [NoFields EXCEPT ![Modality_tag] = Val(m), ![EchoTime_tag] = Val(e)]
XnatNames == { << "a", s, e >> : s \in 0..MaxSlot, e \in 1..MaxEcho }
DarisNames(n) == { << k, "dcm" >> : k \in 0..n - 1 }
XnatContents == { FlatRecord(0, e) : e \in Values }
DarisContents == { FlatRecord(m, e) : m \in Values, e \in Values }

NoMatchResult == MatchOutcome("none", << >>, 0)

InitMatch ==
    /\ pc = "match_ready"
    /\ xnat_files \in UNION { [N -> XnatContents] :
            N \in { S \in SUBSET XnatNames : Cardinality(S) <= MaxFiles } }
    /\ daris_files \in UNION { [DarisNames(n) -> DarisContents] :
            n \in 0..MaxFiles }
    /\ match_result = NoMatchResult
    /\ xnat_elem = NoFields /\ daris_elem = NoFields /\ cmp_result = NoResult
    /\ name_attr \in BOOLEAN
    /\ project = "" /\ tmp_dir = "none" /\ mkdtemp_calls = 0
    /\ datasets = {} /\ cids = << >> /\ pos = 1 /\ visited = << >>
    /\ error_log = << >> /\ info_log = << >> /\ unzips = << >>
    /\ compares = << >> /\ xnat_paths = {} /\ unzip_paths = {}

CompareAllDicoms ==
    /\ pc = "match_ready"
    /\ match_result' = compare_all_dicoms(xnat_files, daris_files)
    /\ pc' = "match_done"
    /\ UNCHANGED << project, tmp_dir, mkdtemp_calls, datasets, cids, pos,
                    visited, error_log, info_log, unzips, compares, xnat_paths,
                    unzip_paths, xnat_files,
                    daris_files, xnat_elem, daris_elem, cmp_result,
                    name_attr >>

NextMatch == CompareAllDicoms

SpecMatch == InitMatch /\ [][NextMatch]_vars

(***************************************************************************)
(* run_check.  A CID is the tuple of its dot-delimited components, each a  *)
(* decimal numeral, the tuple of its digits: 1008.2.1.1.1.1.10 is          *)
(* << <<1,0,0,8>>, <<2>>, <<1>>, <<1>>, <<1>>, <<1>>, <<1,0>> >>.          *)
(***************************************************************************)
RECURSIVE IntOf(_)
\* int(p) of a decimal numeral
IntOf(digits) ==
    IF digits = << >> THEN 0
    ELSE 10 * IntOf(SubSeq(digits, 1, Len(digits) - 1)) + digits[Len(digits)]

\* line 68: tuple(int(p) for p in x.split('.'))
CidKey(cid) == [i \in 1..Len(cid) |-> IntOf(cid[i])]

\* a < b for two tuples of integers or of characters
TupleLess(a, b) ==
    \/ \E i \in 1..Len(a) :
         /\ i <= Len(b)
         /\ a[i] < b[i]
         /\ \A j \in 1..i - 1 : a[j] = b[j]
    \/ /\ Len(a) < Len(b)
       /\ \A j \in 1..Len(a) : a[j] = b[j]

RECURSIVE CidString(_)
\* the characters of a CID: the digits, and -1 for the dot, which sorts
\* before every digit
CidString(cid) ==
    IF Len(cid) = 0 THEN << >>
    ELSE IF Len(cid) = 1 THEN cid[1]
    ELSE cid[1] \o << -1 >> \o CidString(Tail(cid))

RECURSIVE SortedCidsByString(_)
\* lines 67-68 without the key: sorted(datasets.iterkeys())
SortedCidsByString(S) ==
    IF S = {} THEN << >>
    ELSE LET c == CHOOSE c \in S : \A o \in S \ {c} :
                      TupleLess(CidString(c), CidString(o))
         IN  << c >> \o SortedCidsByString(S \ {c})

RECURSIVE SortedCids(_)
\* lines 67-68: sorted(datasets.iterkeys(), key=tuple of ints)
SortedCids(S) ==
    IF S = {} THEN << >>
    ELSE LET c == CHOOSE c \in S : \A o \in S \ {c} :
                      TupleLess(CidKey(c), CidKey(o))
         IN  << c >> \o SortedCids(S \ {c})

\* lines 70-71: the method component of a CID
method_id(cid) == IntOf(cid[5])

\* the projects of the run, and the table mbi_to_daris of line 18
Projects == { << "MRH", "001" >>, << "MMH", "002" >>, << "MRH", "999" >> }
mbi_to_daris ==
    [p \in { << "MRH", "001" >>, << "MMH", "002" >> } |->
        IF p[1] = "MRH" THEN << 1 >> ELSE << 2 >>]

\* most records the catalog query returns
MaxCids == 3
\* most files of a directory audited by run_check
MaxAuditFiles == 2

\* the datasets the catalog holds under project number pid
Catalog(pid) ==
    { << << 1, 0, 0, 8 >>, << 2 >>, pid, << 1 >>, m, << 1 >>, d >> :
        m \in { << 1 >>, << 2 >> }, d \in { << 2 >>, << 9 >>, << 1, 0 >> } }

\* the directories run_check finds at xnat_path and unzips to unzip_path
AuditXnatNames == { << "a", s, e >> : s \in {0, 1}, e \in {1, 2} }
AuditXnatDirs ==
    UNION { [N -> {FlatRecord(0, 0)}] :
        N \in { S \in SUBSET AuditXnatNames : Cardinality(S) <= MaxAuditFiles } }
AuditDarisDirs ==
    UNION { [DarisNames(n) -> { FlatRecord(m, 0) : m \in Values }] :
        n \in 0..MaxAuditFiles }

Line(cid, text) == [cid |-> cid, text |-> text]
Lines(cid, texts) == [i \in 1..Len(texts) |-> Line(cid, texts[i])]

\* lines 72-97 without the continue of line 84
AuditWithoutContinue(cid, exists, unzip_ok, r) ==
    LET missing == IF exists THEN << >> ELSE << "missing dataset" >>
    IN  IF ~unzip_ok
        THEN [errors |-> Lines(cid, missing),
              infos |-> Lines(cid, << "Checking", "Unzipping" >>),
              unzipped |-> TRUE, compared |-> << >>,
              raised |-> "CalledProcessError", left |-> TRUE]
        ELSE IF r.ret = "true"
        THEN [errors |-> Lines(cid, missing),
              infos |-> Lines(cid, << "Checking", "Unzipping", "matches" >>),
              unzipped |-> TRUE, compared |-> << << cid, r.ret >> >>,
              raised |-> "", left |-> FALSE]
        ELSE [errors |-> Lines(cid, missing \o r.log),
              infos |-> Lines(cid, << "Checking", "Unzipping" >>),
              unzipped |-> TRUE, compared |-> << << cid, r.ret >> >>,
              raised |-> IF r.ret = "false" THEN "" ELSE r.ret,
              left |-> r.ret # "false"]

\* lines 72-97, the body of the loop for a CID of method 1, r being what
\* compare_all_dicoms gives for its directories: the lines logged, whether
\* unzip ran, the call of compare_all_dicoms, the exception that leaves
\* run_check if any, whether unzip_path is left behind
AuditEffects(cid, exists, unzip_ok, r) ==
        IF ~exists
        THEN [errors |-> Lines(cid, << "missing dataset" >>),
              infos |-> Lines(cid, << "Checking" >>),
              unzipped |-> FALSE, compared |-> << >>, raised |-> "",
              left |-> FALSE]
        ELSE IF ~unzip_ok          \* sp.check_call raises CalledProcessError
        THEN [errors |-> << >>,
              infos |-> Lines(cid, << "Checking", "Unzipping" >>),
              unzipped |-> TRUE, compared |-> << >>,
              raised |-> "CalledProcessError", left |-> TRUE]
        ELSE IF r.ret = "true"
        THEN [errors |-> << >>,
              infos |-> Lines(cid, << "Checking", "Unzipping", "matches" >>),
              unzipped |-> TRUE, compared |-> << << cid, r.ret >> >>,
              raised |-> "", left |-> FALSE]
        ELSE [errors |-> Lines(cid, r.log),
              infos |-> Lines(cid, << "Checking", "Unzipping" >>),
              unzipped |-> TRUE, compared |-> << << cid, r.ret >> >>,
              raised |-> IF r.ret = "false" THEN "" ELSE r.ret,
              left |-> r.ret # "false"]

\* lines 72-97 on the directories found at xnat_path and unzip_path
Audit(cid, exists, unzip_ok, xnat_dir, daris_dir) ==
    AuditEffects(cid, exists, unzip_ok,
                 compare_all_dicoms(xnat_dir, daris_dir))

Init ==
    /\ pc = "start"
    /\ project \in Projects
    /\ tmp_dir = "none" /\ mkdtemp_calls = 0
    /\ datasets = {} /\ cids = << >> /\ pos = 1 /\ visited = << >>
    /\ error_log = << >> /\ info_log = << >> /\ unzips = << >>
    /\ compares = << >> /\ xnat_paths = {} /\ unzip_paths = {}
    /\ xnat_files = << >> /\ daris_files = << >>
    /\ match_result = NoMatchResult
    /\ xnat_elem = NoFields /\ daris_elem = NoFields /\ cmp_result = NoResult
    /\ name_attr \in BOOLEAN

\* line 59
Mkdtemp ==
    /\ pc = "start"
    /\ tmp_dir' = "exists"
    /\ mkdtemp_calls' = mkdtemp_calls + 1
    /\ pc' = "login"
    /\ UNCHANGED << project, datasets, cids, pos, visited, error_log,
                    info_log, unzips, compares, xnat_paths, unzip_paths,
                    xnat_files, daris_files, match_result, xnat_elem,
                    daris_elem, cmp_result, name_attr >>

\* lines 60-62: the password prompt and the login, which succeed or raise
Login ==
    /\ pc = "login"
    /\ \E ok \in BOOLEAN : pc' = IF ok THEN "query" ELSE "LoginError"
    /\ UNCHANGED << project, tmp_dir, mkdtemp_calls, datasets, cids, pos,
                    visited, error_log, info_log, unzips, compares,
                    xnat_paths, unzip_paths, xnat_files, daris_files,
                    match_result, xnat_elem, daris_elem, cmp_result,
                    name_attr >>

\* line 63 on a project that mbi_to_daris does not hold: KeyError
UnknownProject ==
    /\ pc = "query"
    /\ project \notin DOMAIN mbi_to_daris
    /\ pc' = "KeyError"
    /\ UNCHANGED << project, tmp_dir, mkdtemp_calls, datasets, cids, pos,
                    visited, error_log, info_log, unzips, compares,
                    xnat_paths, unzip_paths, xnat_files, daris_files,
                    match_result, xnat_elem, daris_elem, cmp_result,
                    name_attr >>

\* lines 63-68: the query and the sort; the store holds the xnat_path of
\* some of the datasets
Query ==
    /\ pc = "query"
    /\ project \in DOMAIN mbi_to_daris
    /\ \E S \in SUBSET Catalog(mbi_to_daris[project]) :
         /\ Cardinality(S) <= MaxCids
         /\ datasets' = S
         /\ cids' = SortedCids(S)
         /\ \E P \in SUBSET { c \in S : method_id(c) = 1 } : xnat_paths' = P
    /\ pos' = 1
    /\ pc' = "loop"
    /\ UNCHANGED << project, tmp_dir, mkdtemp_calls, visited, error_log,
                    info_log, unzips, compares, unzip_paths, xnat_files,
                    daris_files, match_result, xnat_elem, daris_elem,
                    cmp_result, name_attr >>

\* lines 69-72: a CID of another method is passed over
SkipCid ==
    /\ pc = "loop" /\ pos <= Len(cids)
    /\ method_id(cids[pos]) # 1
    /\ pos' = pos + 1
    /\ UNCHANGED << pc, project, tmp_dir, mkdtemp_calls, datasets, cids,
                    visited, error_log, info_log, unzips, compares,
                    xnat_paths, unzip_paths, xnat_files, daris_files,
                    match_result, xnat_elem, daris_elem, cmp_result,
                    name_attr >>

\* lines 69-97: one iteration of the loop on a CID of method 1
AuditCid ==
    /\ pc = "loop" /\ pos <= Len(cids)
    /\ method_id(cids[pos]) = 1
    /\ \E unzip_ok \in BOOLEAN, xnat_dir \in AuditXnatDirs,
          daris_dir \in AuditDarisDirs :
       \E a \in { Audit(cids[pos], cids[pos] \in xnat_paths, unzip_ok,
                         xnat_dir, daris_dir) } :
         /\ visited' = Append(visited, cids[pos])
         /\ error_log' = error_log \o a.errors
         /\ info_log' = info_log \o a.infos
         /\ unzips' = IF a.unzipped THEN Append(unzips, cids[pos])
                      ELSE unzips
         /\ compares' = compares \o a.compared
         /\ unzip_paths' = IF a.left THEN unzip_paths \cup {cids[pos]}
                           ELSE unzip_paths \ {cids[pos]}
         /\ pc' = IF a.raised = "" THEN "loop" ELSE a.raised
         /\ pos' = IF a.raised = "" THEN pos + 1 ELSE pos
    /\ UNCHANGED << project, tmp_dir, mkdtemp_calls, datasets, cids,
                    xnat_paths, xnat_files, daris_files, match_result,
                    xnat_elem, daris_elem, cmp_result, name_attr >>

\* line 98, after the last CID
Rmtree ==
    /\ pc = "loop" /\ pos > Len(cids)
    /\ tmp_dir' = "removed"
    /\ unzip_paths' = {}
    /\ pc' = "done"
    /\ UNCHANGED << project, mkdtemp_calls, datasets, cids, pos, visited,
                    error_log, info_log, unzips, compares, xnat_paths,
                    xnat_files, daris_files, match_result, xnat_elem,
                    daris_elem, cmp_result, name_attr >>

Next ==
    \/ Mkdtemp
    \/ Login
    \/ UnknownProject
    \/ Query
    \/ SkipCid
    \/ AuditCid
    \/ Rmtree

Spec == Init /\ [][Next]_vars

(***************************************************************************)
(* Properties of compare_dicoms (SpecCmp).                                 *)
(***************************************************************************)
CmpDone == pc = "cmp_done"
RightOnly(t) == Has(daris_elem, t) /\ ~Has(xnat_elem, t)
\* the echo time is on both records and differs
EchoDiffers(x, d) ==
    /\ Has(x, EchoTime_tag) /\ Has(d, EchoTime_tag)
    /\ ValueDiffers(x[EchoTime_tag], d[EchoTime_tag])
\* two records paired inside the sequence field differ in their echo time
NestedEchoDiffers(x, d) ==
    /\ Has(x, Sequence_tag) /\ Has(d, Sequence_tag)
    /\ \E i \in DOMAIN x[Sequence_tag].items \cap DOMAIN d[Sequence_tag].items :
          EchoDiffers(x[Sequence_tag].items[i], d[Sequence_tag].items[i])
Logged(r, line) == \E i \in 1..Len(r.log) : r.log[i] = line

\* C4 as stated: when the echo time (0018,0081) is on the right record and
\* not on the left one, compare_dicoms raises WrongEchoTimeException and
\* does not log and report an ordinary mismatch.
C4_AbsentLeftRaisesSignal ==
    CmpDone /\ RightOnly(EchoTime_tag) =>
        /\ cmp_result.ret = "WrongEchoTimeException"
        /\ ~Logged(cmp_result, "xnat scan does not have echo time")

\* C4 amended: when the echo time is on the right record and not on the left
\* one, compare_dicoms first logs "xnat scan does not have echo time", counts
\* it as a mismatch (it never returns true) and raises no
\* WrongEchoTimeException for that record; the exception is raised when the
\* echo time is on both sides of a record with different values, and only
\* then.
C4_AbsentLeftIsOrdinaryMismatch ==
    CmpDone =>
        /\ RightOnly(EchoTime_tag) =>
              /\ cmp_result.ret # "true"
              /\ Len(cmp_result.log) >= 1
              /\ cmp_result.log[1] = "xnat scan does not have echo time"
              /\ cmp_result.ret = "WrongEchoTimeException"
                    => NestedEchoDiffers(xnat_elem, daris_elem)
        /\ EchoDiffers(xnat_elem, daris_elem)
              => cmp_result = Outcome("WrongEchoTimeException", << >>)
        /\ cmp_result.ret = "WrongEchoTimeException"
              => \/ EchoDiffers(xnat_elem, daris_elem)
                 \/ NestedEchoDiffers(xnat_elem, daris_elem)

\* C4 witness: an echo time only on the right was compared and came back as
\* an ordinary mismatch.
C4_Witness ==
    /\ CmpDone /\ RightOnly(EchoTime_tag)
    /\ cmp_result.ret = "false"
    /\ Logged(cmp_result, "xnat scan does not have echo time")

BothSequences ==
    /\ xnat_elem[Sequence_tag].kind = "seq"
    /\ daris_elem[Sequence_tag].kind = "seq"

\* C5 as stated: two sequences of different lengths are logged as a length
\* mismatch and make the comparison return false, also when the shorter one
\* equals the leading elements of the longer one.
C5_LengthMismatchFails ==
    /\ CmpDone /\ BothSequences
    /\ Len(xnat_elem[Sequence_tag].items) # Len(daris_elem[Sequence_tag].items)
    /\ cmp_result.ret \notin Exceptions
    => /\ cmp_result.ret = "false"
       /\ Logged(cmp_result, "mismatching length")

\* xnat_elem without the fields daris_elem does not have
LeftRestricted ==
    [t \in Tags |-> IF Has(daris_elem, t) THEN xnat_elem[t] ELSE Absent]

\* C6 as stated: a field only on the right makes compare_dicoms return
\* false, logged, with no other error, wherever the field is in the record;
\* a field only on the left does not change the result.
C6_RightOnlyFieldReturnsFalse ==
    CmpDone =>
        /\ (\E t \in Tags : RightOnly(t))
            /\ cmp_result.ret # "WrongEchoTimeException"
            => /\ cmp_result.ret = "false"
               /\ Logged(cmp_result, "missing")
        /\ cmp_result = compare_dicoms(LeftRestricted, daris_elem)

(***************************************************************************)
(* Properties of compare_all_dicoms (SpecMatch).                           *)
(***************************************************************************)
MatchDone == pc = "match_done"
XFiles == ListXnat(DOMAIN xnat_files)
DFiles == ListDaris(DOMAIN daris_files)
XMap == XnatFnameMap(XFiles)
DMap == DarisFnameMap(DFiles, MaxMult(XMap))
SameCount == Len(XFiles) = Len(DFiles) /\ Len(XFiles) > 0
\* the XNAT files form the slots 1..N with E files each
XnatRegular(N, E) ==
    /\ DOMAIN XMap = 1..N
    /\ \A k \in 1..N : Len(XMap[k]) = E
PairResult(x, d) == compare_dicoms(xnat_files[x], daris_files[d]).ret
Elems(q) == { q[i] : i \in 1..Len(q) }

\* C1 as stated: when the XNAT files form the slots 1..N with E files each
\* and the DaRIS files are 0.dcm .. (N*E-1).dcm, both sides resolve to the
\* slots 1..N with E files each, and compare_all_dicoms returns true when
\* every cross-comparison inside each slot finds consistent metadata.
C1_RegularSlotsResolveAlike ==
    MatchDone =>
      \A N \in 1..MaxSlot, E \in 1..MaxEcho :
        XnatRegular(N, E) /\ Len(DFiles) = N * E =>
          /\ DOMAIN DMap = 1..N
          /\ \A k \in 1..N : Len(DMap[k]) = E
          /\ (\A k \in 1..N : \A x \in Elems(XMap[k]), d \in Elems(DMap[k]) :
                 PairResult(x, d) = "true")
             => match_result.ret = "true"

\* C2 as stated: with equal file counts on both sides and two XNAT slots
\* holding different numbers of files, compare_all_dicoms returns false
\* without comparing any file.
C2_UnequalSlotsFail ==
    /\ MatchDone /\ SameCount
    /\ \E k1, k2 \in DOMAIN XMap : Len(XMap[k1]) # Len(XMap[k2])
    => /\ match_result.ret = "false"
       /\ match_result.compared = 0

\* the count, multiplicity and slot-set checks have passed and the slots
\* were compared
ChecksPassed ==
    /\ SameCount
    /\ MaxMult(XMap) = MinMult(XMap)
    /\ DOMAIN XMap = DOMAIN DMap
    /\ match_result.ret \in {"true", "false"}

\* C3 as stated: once the checks have passed, compare_all_dicoms returns
\* true exactly when every slot has a pair of files whose comparison ends
\* without the echo-time exception and without a mismatch.
C3_TrueIffEverySlotHasMatch ==
    MatchDone /\ ChecksPassed =>
        ( match_result.ret = "true"
          <=> \A k \in DOMAIN DMap :
                \E x \in Elems(XMap[k]), d \in Elems(DMap[k]) :
                    PairResult(x, d) = "true" )

\* C10 as stated: when the per-slot loop is reached, every slot holds as
\* many XNAT files as DaRIS files and the assertion of line 189 holds.
C10_AssertionHolds ==
    /\ MatchDone /\ SameCount
    /\ MaxMult(XMap) = MinMult(XMap)
    /\ DOMAIN XMap = DOMAIN DMap
    => /\ \A k \in DOMAIN DMap : Len(XMap[k]) = Len(DMap[k])
       /\ match_result.ret # "AssertionError"

(***************************************************************************)
(* Properties of run_check (Spec).                                         *)
(***************************************************************************)
RunEnded == pc \notin {"start", "login", "query", "loop"}
Canonical == { c \in datasets : method_id(c) = 1 }
ErrorsOf(cid) == SelectSeq(error_log, LAMBDA l : l.cid = cid)
InfosOf(cid) == SelectSeq(info_log, LAMBDA l : l.cid = cid)
Matches == SelectSeq(info_log, LAMBDA l : l.text = "matches")
Compared(cid) == \E k \in 1..Len(compares) : compares[k][1] = cid
Matched(cid) == \E k \in 1..Len(compares) : compares[k] = << cid, "true" >>
PassedOver(cid) == \E k \in 1..Len(cids) : k < pos /\ cids[k] = cid

C9_WorkspaceRemovedAtEnd ==
    /\ pc # "start" => mkdtemp_calls = 1
    /\ pc \in {"done", "CalledProcessError", "KeyError"}
         => tmp_dir = "removed"

====
